---- MODULE Spec2Model ----
(***************************************************************************)
(* Simple Matrix (src/matrix.c, src/matrix.h): the matrix handle, its      *)
(* column-major storage and the algebraic operations.                      *)
(*                                                                         *)
(* A Matrix is a pointer to a heap struct; the model keeps the caller's    *)
(* pointer variables in `heap`: each holds NULL or the struct it points    *)
(* to.  Two arguments of a call alias exactly when the same variable is    *)
(* passed twice.  A double is modelled as an exact rational <<num, den>>   *)
(* (no rounding, no overflow); a buffer is a sequence whose length is the  *)
(* number of doubles allocated, and C index i is element i + 1.            *)
(***************************************************************************)
EXTENDS Integers, Sequences, FiniteSets, TLC

VARIABLES heap,    \* caller variable -> NULL or the MatrixData it points to
          pre,     \* heap before the last call
          last,    \* the last call: [op, args, ret]
          status,  \* "ok", "aborted" (the process died) or "corrupted"
          left     \* number of calls the caller still makes

vars == <<heap, pre, last, status, left>>

(***************************************************************************)
(* Constants of the program and bounds of the model.                       *)
(***************************************************************************)
MATRIX_SIZE_MAX == 50 * 50
MATRIX_IDENTITY == "I"
MATRIX_ZERO == "0"
MATRIX_TRANSPOSE == "T"
MATRIX_KEEP == "N"

\* Largest small dimension a call is given.
MaxDim == 2
\* Calls made from the empty heap under Spec.
MaxOps == 2

\* The caller's three pointer variables: no call takes more than three
\* matrices (Mat_Sum, Mat_Dot).
Handles == {1, 2, 3}
NullHandle == 0

\* Dimensions the calls are given: the small ones (from 1; empty matrices are
\* left out), and three large requests:
\* OverHalf x 2, which is within the limit in each dimension and above it in
\* elements, and a dimension above the limit as the row or the column count.
OverHalf == MATRIX_SIZE_MAX \div 2 + 1
SmallDims == 1 .. MaxDim
LargePairs == {<<OverHalf, 2>>, <<MATRIX_SIZE_MAX + 1, 1>>, <<1, MATRIX_SIZE_MAX + 1>>}
DimPairs == (SmallDims \X SmallDims) \cup LargePairs

(***************************************************************************)
(* double, as an exact rational in lowest terms with a positive            *)
(* denominator.                                                            *)
(***************************************************************************)
Abs(x) == IF x < 0 THEN -x ELSE x

RECURSIVE GCD(_, _)
GCD(a, b) == IF b = 0 THEN a ELSE GCD(b, a % b)

Rat(n, d) ==
  LET s == IF d < 0 THEN -1 ELSE 1
      g == GCD(Abs(n), Abs(d))
  IN  <<(s * n) \div g, (s * d) \div g>>

Num(i) == <<i, 1>>
Zero == Num(0)
One == Num(1)
RAdd(x, y) == Rat(x[1] * y[2] + y[1] * x[2], x[2] * y[2])
RSub(x, y) == Rat(x[1] * y[2] - y[1] * x[2], x[2] * y[2])
RMul(x, y) == Rat(x[1] * y[1], x[2] * y[2])
RDiv(x, y) == Rat(x[1] * y[2], x[2] * y[1])
RNeg(x) == <<-x[1], x[2]>>
RAbs(x) == <<Abs(x[1]), x[2]>>
RLess(x, y) == x[1] * y[2] < y[1] * x[2]

\* Sum of s[lo..hi] (exact, so the order of the additions does not matter).
RECURSIVE SumSeq(_, _, _)
SumSeq(s, lo, hi) ==
  IF lo > hi THEN Zero
  ELSE IF lo = hi THEN s[lo]
  ELSE LET mid == (lo + hi) \div 2
       IN  RAdd(SumSeq(s, lo, mid), SumSeq(s, mid + 1, hi))

(***************************************************************************)
(* struct _MatrixData and raw memory.                                      *)
(***************************************************************************)
NULL == [null |-> TRUE]

MatrixData(rows, cols, data) ==
  [null |-> FALSE, rowsNumber |-> rows, columnsNumber |-> cols, data |-> data]

\* rowsNumber * columnsNumber, the element count every loop and memcpy uses.
Cells(m) == m.rowsNumber * m.columnsNumber
\* Doubles allocated to m->data.
Cap(m) == Len(m.data)

\* calloc( n, sizeof(double) )
Zeros(n) == [i \in 1 .. n |-> Zero]

\* buf[ i ] read: past the allocation it yields the indeterminate value g.
Rd(buf, i, g) == IF i < Len(buf) THEN buf[i + 1] ELSE g

\* The first n doubles of buf, as read by a memcpy or a kernel.
Pad(buf, n, g) == [i \in 1 .. n |-> Rd(buf, i - 1, g)]

\* memcpy( buf, vals, n * sizeof(double) ): what lands inside the allocation.
Store(buf, vals, n) ==
  [i \in 1 .. Len(buf) |-> IF i <= n THEN vals[i] ELSE buf[i]]

\* What a call hands back: the heap after it, the value returned, and how it
\* ended: "ok", "null" (a NULL pointer was dereferenced) or "oob" (a buffer
\* was read or written past its allocation).
Res(hp, ret, st) == [heap |-> hp, ret |-> ret, st |-> st]

\* The caller's row-major test array for a rows x cols matrix: 1, 2, 3, ...
Canon(rows, cols) == [i \in 1 .. rows * cols |-> Num(i)]
\* A second array, with other values: 11, 9, 7, ...
Other(rows, cols) == [i \in 1 .. rows * cols |-> Num(13 - 2 * i)]

(***************************************************************************)
(* Mat_Clear, Mat_SetData on a struct; Mat_Create, Mat_CreateSquare.       *)
(* `data` arguments are <<>> for NULL and <<X>> for a pointer to array X.  *)
(***************************************************************************)
\* memset( matrix->data, 0, rows * columns * sizeof(double) )
ClearBuf(m) == Store(m.data, Zeros(Cells(m)), Cells(m))

\* A slip in the loop below: the array is copied in the order it comes.
SetDataBufStraight(m, X) ==
  [i \in 1 .. Cap(m) |-> IF i <= Cells(m) THEN X[i] ELSE m.data[i]]

\* matrix->data[ column * rows + row ] = data[ row * columns + column ]
SetDataBuf(m, X) ==
  [i \in 1 .. Cap(m) |->
     IF i <= Cells(m)
     THEN LET row == (i - 1) % m.rowsNumber
              column == (i - 1) \div m.rowsNumber
          IN  X[row * m.columnsNumber + column + 1]
     ELSE m.data[i]]

Mat_Create(data, rowsNumber, columnsNumber) ==
  IF rowsNumber > MATRIX_SIZE_MAX \/ columnsNumber > MATRIX_SIZE_MAX THEN NULL
  ELSE LET newMatrix ==
             MatrixData(rowsNumber, columnsNumber, Zeros(rowsNumber * columnsNumber))
       IN  IF data = <<>> THEN [newMatrix EXCEPT !.data = ClearBuf(newMatrix)]
           ELSE [newMatrix EXCEPT !.data = SetDataBuf(newMatrix, data[1])]

\* Returns [m, st]: st is "null" when the diagonal loop runs on a NULL matrix.
Mat_CreateSquare(size, type) ==
  LET newSquareMatrix == Mat_Create(<<>>, size, size)
  IN  IF type = MATRIX_IDENTITY /\ size > 0
      THEN IF newSquareMatrix.null THEN [m |-> NULL, st |-> "null"]
           ELSE [m |-> [newSquareMatrix EXCEPT !.data =
                          [i \in 1 .. size * size |->
                             IF (i - 1) % size = (i - 1) \div size
                             THEN One ELSE Zero]],
                 st |-> "ok"]
      ELSE [m |-> newSquareMatrix, st |-> "ok"]

(***************************************************************************)
(* Storage operations on the caller's variables.  hp is the heap, h a      *)
(* variable; g is the value an out-of-bounds read yields.                  *)
(***************************************************************************)
Mat_Discard(hp, h) ==
  \* free( matrix->data ); free( matrix ): the caller's variable is dead, and
  \* the model has the caller forget it.
  Res([hp EXCEPT ![h] = NULL], NullHandle, "ok")

Mat_Copy(hp, source, destination, g) ==
  IF hp[source].null \/ hp[destination].null THEN Res(hp, NullHandle, "ok")
  ELSE LET hp1 == [hp EXCEPT ![destination].rowsNumber = hp[source].rowsNumber]
           hp2 == [hp1 EXCEPT ![destination].columnsNumber = hp1[source].columnsNumber]
           n == Cells(hp2[destination])
           bytes == Pad(hp2[source].data, n, g)
       IN  Res([hp2 EXCEPT ![destination].data = Store(@, bytes, n)],
               destination,
               IF n > Cap(hp2[destination]) \/ n > Cap(hp2[source])
               THEN "oob" ELSE "ok")

Mat_Clear(hp, h) ==
  IF hp[h].null THEN Res(hp, NullHandle, "ok")
  ELSE Res([hp EXCEPT ![h].data = ClearBuf(hp[h])], h,
           IF Cells(hp[h]) > Cap(hp[h]) THEN "oob" ELSE "ok")

Mat_GetWidth(hp, h) ==
  Res(hp, IF hp[h].null THEN 0 ELSE hp[h].columnsNumber, "ok")

Mat_GetHeight(hp, h) ==
  Res(hp, IF hp[h].null THEN 0 ELSE hp[h].rowsNumber, "ok")

Mat_GetElement(hp, h, row, column, g) ==
  IF hp[h].null THEN Res(hp, Zero, "ok")
  ELSE IF row >= hp[h].rowsNumber \/ column >= hp[h].columnsNumber
       THEN Res(hp, Zero, "ok")
       ELSE LET i == column * hp[h].rowsNumber + row
            IN  Res(hp, Rd(hp[h].data, i, g),
                    IF i >= Cap(hp[h]) THEN "oob" ELSE "ok")

Mat_SetElement(hp, h, row, column, value) ==
  IF hp[h].null THEN Res(hp, NullHandle, "ok")
  ELSE IF row >= hp[h].rowsNumber \/ column >= hp[h].columnsNumber
       THEN Res(hp, NullHandle, "ok")
       ELSE LET i == column * hp[h].rowsNumber + row
            IN  IF i >= Cap(hp[h]) THEN Res(hp, NullHandle, "oob")
                ELSE Res([hp EXCEPT ![h].data[i + 1] = value], NullHandle, "ok")

\* The filled buffer is returned as <<buffer>>, NULL as <<>>.
Mat_GetData(hp, h, g) ==
  IF hp[h].null THEN Res(hp, <<>>, "ok")
  ELSE LET m == hp[h]
           buffer == [i \in 1 .. Cells(m) |->
                        LET row == (i - 1) \div m.columnsNumber
                            column == (i - 1) % m.columnsNumber
                        IN  Rd(m.data, column * m.rowsNumber + row, g)]
       IN  Res(hp, <<buffer>>, IF Cells(m) > Cap(m) THEN "oob" ELSE "ok")

Mat_SetData(hp, h, data) ==
  IF hp[h].null THEN Res(hp, NullHandle, "ok")
  ELSE Res([hp EXCEPT ![h].data = SetDataBuf(hp[h], data)], NullHandle,
           IF Cells(hp[h]) > Cap(hp[h]) THEN "oob" ELSE "ok")

\* The two loops of Mat_Resize write data[ column * rowsNumber + row ] for
\* every old column (outer loop) and old row (inner loop), so the value left
\* at index i is the one written for the largest column that reaches i.
\* ResizeWriter is that column, or -1 when no iteration writes index i.
ResizeWriter(i, oldRows, oldColumns, rowsNumber) ==
  IF oldRows = 0 \/ oldColumns = 0 THEN -1
  ELSE LET column == IF rowsNumber = 0 THEN oldColumns - 1
                     ELSE IF i \div rowsNumber < oldColumns - 1
                          THEN i \div rowsNumber ELSE oldColumns - 1
       IN  IF i - column * rowsNumber < oldRows THEN column ELSE -1

\* The caller keeps the returned pointer in the variable it passed.
Mat_Resize(hp, h, rowsNumber, columnsNumber, g) ==
  IF hp[h].null
  THEN LET matrix == Mat_Create(<<>>, rowsNumber, columnsNumber)
       IN  Res([hp EXCEPT ![h] = matrix], IF matrix.null THEN NullHandle ELSE h, "ok")
  ELSE LET m == hp[h]
           old == Cells(m)
           new == rowsNumber * columnsNumber
           \* realloc keeps the old content up to the smaller of the two sizes
           grown == IF old < new THEN Pad(m.data, new, g) ELSE m.data
           auxArray == Pad(grown, old, g)
           zeroed == Store(grown, Zeros(new), new)
           data == [i \in 1 .. Len(zeroed) |->
                      LET column == ResizeWriter(i - 1, m.rowsNumber,
                                                 m.columnsNumber, rowsNumber)
                      IN  IF column < 0 THEN zeroed[i]
                          ELSE auxArray[column * m.rowsNumber
                                        + (i - 1 - column * rowsNumber) + 1]]
           lastWrite == (m.columnsNumber - 1) * rowsNumber + m.rowsNumber - 1
           oob == \/ old > Len(grown)
                  \/ new > Len(grown)
                  \/ old > 0 /\ lastWrite >= Len(grown)
       IN  Res([hp EXCEPT ![h] = MatrixData(rowsNumber, columnsNumber, data)],
               h, IF oob THEN "oob" ELSE "ok")

(***************************************************************************)
(* The external kernels (BLAS dgemm_, LAPACK dgetrf_ and dgetri_), by      *)
(* their contract on column-major buffers, in exact arithmetic.            *)
(***************************************************************************)
\* C = 1.0 * op(A) * op(B) + 0.0 * C, C being m x n with leading dimension m.
dgemm_(tA, tB, m, n, k, A, ldA, B, ldB, g) ==
  [c \in 1 .. m * n |->
     LET i == (c - 1) % m
         j == (c - 1) \div m
         terms == [l1 \in 1 .. k |->
                     LET l == l1 - 1
                         a == IF tA = MATRIX_TRANSPOSE THEN Rd(A, l + i * ldA, g)
                              ELSE Rd(A, i + l * ldA, g)
                         b == IF tB = MATRIX_TRANSPOSE THEN Rd(B, j + l * ldB, g)
                              ELSE Rd(B, l + j * ldB, g)
                     IN  RMul(a, b)]
     IN  SumSeq(terms, 1, k)]

\* Row of the first entry of largest magnitude in column j, rows j .. n-1.
PivotRow(n, a, j) ==
  CHOOSE p \in j .. n - 1 :
    /\ \A i \in j .. n - 1 : ~RLess(RAbs(a[p + j * n + 1]), RAbs(a[i + j * n + 1]))
    /\ \A i \in j .. p - 1 : RLess(RAbs(a[i + j * n + 1]), RAbs(a[p + j * n + 1]))

\* Column j of the factorization with partial pivoting: record the pivot row
\* (1-based), interchange the rows, divide the column by the pivot, update
\* the trailing block.  A zero pivot is reported in info (1-based, the first
\* one) and leaves the column as it is.
LUColumn(n, f, j) ==
  LET a == f.a
      p == PivotRow(n, a, j)
      ipiv == [f.ipiv EXCEPT ![j + 1] = p + 1]
  IN  IF a[p + j * n + 1] = Zero
      THEN [a |-> a, ipiv |-> ipiv, info |-> IF f.info = 0 THEN j + 1 ELSE f.info]
      ELSE LET swapped == [c \in 1 .. n * n |->
                             LET i == (c - 1) % n
                                 col == (c - 1) \div n
                             IN  IF i = j THEN a[p + col * n + 1]
                                 ELSE IF i = p THEN a[j + col * n + 1]
                                 ELSE a[c]]
               scaled == [c \in 1 .. n * n |->
                            LET i == (c - 1) % n
                                col == (c - 1) \div n
                            IN  IF col = j /\ i > j
                                THEN RDiv(swapped[c], swapped[j + j * n + 1])
                                ELSE swapped[c]]
               updated == [c \in 1 .. n * n |->
                             LET i == (c - 1) % n
                                 col == (c - 1) \div n
                             IN  IF col > j /\ i > j
                                 THEN RSub(scaled[c], RMul(scaled[i + j * n + 1],
                                                           scaled[j + col * n + 1]))
                                 ELSE scaled[c]]
           IN  [a |-> updated, ipiv |-> ipiv, info |-> f.info]

RECURSIVE LUFrom(_, _, _)
LUFrom(n, f, j) == IF j >= n THEN f ELSE LUFrom(n, LUColumn(n, f, j), j + 1)

\* dgetrf_( &n, &n, A, &n, IPIV, &INFO ): [a, ipiv, info].
dgetrf_(n, A) == LUFrom(n, [a |-> A, ipiv |-> [j \in 1 .. n |-> 0], info |-> 0], 0)

\* The n x n column-major matrix without row r and column c (0-based).
Minor(n, a, r, c) ==
  [x \in 1 .. (n - 1) * (n - 1) |->
     LET i == (x - 1) % (n - 1)
         j == (x - 1) \div (n - 1)
         ii == IF i < r THEN i ELSE i + 1
         jj == IF j < c THEN j ELSE j + 1
     IN  a[ii + jj * n + 1]]

\* Determinant by expansion along the first column.
RECURSIVE Det(_, _)
Det(n, a) ==
  IF n = 0 THEN One
  ELSE SumSeq([i1 \in 1 .. n |->
                 LET t == RMul(a[i1], Det(n - 1, Minor(n, a, i1 - 1, 0)))
                 IN  IF i1 % 2 = 1 THEN t ELSE RNeg(t)], 1, n)

\* Column interchanges j <-> ipiv[j], for j = n-2 down to 0.
RECURSIVE UnpivotColumns(_, _, _, _)
UnpivotColumns(n, x, ipiv, j) ==
  IF j < 0 THEN x
  ELSE LET jp == ipiv[j + 1] - 1
           y == [c \in 1 .. n * n |->
                   LET i == (c - 1) % n
                       col == (c - 1) \div n
                   IN  IF col = j THEN x[i + jp * n + 1]
                       ELSE IF col = jp THEN x[i + j * n + 1]
                       ELSE x[c]]
       IN  UnpivotColumns(n, y, ipiv, j - 1)

\* dgetri_( &n, A, &n, IPIV, WORK, &lwork, &INFO ) on the factors dgetrf_ left
\* in A: inv(A) = inv(L * U) with the row interchanges undone as column
\* interchanges; a zero on U's diagonal is reported in info and A is left as is.
dgetri_(n, A, ipiv) ==
  LET zeroAt == {j \in 1 .. n : A[(j - 1) + (j - 1) * n + 1] = Zero}
      L == [c \in 1 .. n * n |->
              LET i == (c - 1) % n
                  j == (c - 1) \div n
              IN  IF i > j THEN A[c] ELSE IF i = j THEN One ELSE Zero]
      U == [c \in 1 .. n * n |->
              IF (c - 1) % n <= (c - 1) \div n THEN A[c] ELSE Zero]
      LU == dgemm_(MATRIX_KEEP, MATRIX_KEEP, n, n, n, L, n, U, n, Zero)
      d == Det(n, LU)
      inv == [c \in 1 .. n * n |->
                LET i == (c - 1) % n
                    j == (c - 1) \div n
                    cof == Det(n - 1, Minor(n, LU, j, i))
                IN  RDiv(IF (i + j) % 2 = 0 THEN cof ELSE RNeg(cof), d)]
  IN  IF zeroAt # {}
      THEN [a |-> A, info |-> CHOOSE j \in zeroAt : \A j2 \in zeroAt : j <= j2]
      ELSE [a |-> UnpivotColumns(n, inv, ipiv, n - 2), info |-> 0]

(***************************************************************************)
(* Algebraic operations.  Assignments to result->rowsNumber and            *)
(* result->columnsNumber are applied to the heap one after the other, so   *)
(* that a later read through an aliased operand sees them.                 *)
(***************************************************************************)
Mat_Scale(hp, matrix, scalar, result, g) ==
  IF hp[matrix].null THEN Res(hp, NullHandle, "ok")
  ELSE IF hp[result].null THEN Res(hp, NullHandle, "null")
  ELSE LET elementsNumber == Cells(hp[result])
           scaled == [i \in 1 .. elementsNumber |->
                        RMul(scalar, Rd(hp[matrix].data, i - 1, g))]
           hp1 == [hp EXCEPT ![result].data = Store(@, scaled, elementsNumber)]
           hp2 == [hp1 EXCEPT ![result].rowsNumber = hp1[matrix].rowsNumber]
           hp3 == [hp2 EXCEPT ![result].columnsNumber = hp2[matrix].columnsNumber]
       IN  Res(hp3, result,
               IF elementsNumber > Cap(hp[result]) \/ elementsNumber > Cap(hp[matrix])
               THEN "oob" ELSE "ok")

\* A slip in the check below: only the row counts are compared.
SumRowsDiffer(m1, m2) == m1.rowsNumber # m2.rowsNumber

\* The operands of Mat_Sum do not have the same dimensions.
SumShapesDiffer(m1, m2) ==
  m1.rowsNumber # m2.rowsNumber \/ m1.columnsNumber # m2.columnsNumber

Mat_Sum(hp, matrix_1, weight_1, matrix_2, weight_2, result, g) ==
  IF hp[matrix_1].null \/ hp[matrix_2].null THEN Res(hp, NullHandle, "ok")
  ELSE IF SumShapesDiffer(hp[matrix_1], hp[matrix_2])
  THEN Res(hp, NullHandle, "ok")
  ELSE IF hp[result].null THEN Res(hp, NullHandle, "null")
  ELSE LET hp1 == [hp EXCEPT ![result].rowsNumber = hp[matrix_1].rowsNumber]
           hp2 == [hp1 EXCEPT ![result].columnsNumber = hp1[matrix_1].columnsNumber]
           elementsNumber == Cells(hp2[result])
           summed == [i \in 1 .. elementsNumber |->
                        RAdd(RMul(weight_1, Rd(hp2[matrix_1].data, i - 1, g)),
                             RMul(weight_2, Rd(hp2[matrix_2].data, i - 1, g)))]
       IN  Res([hp2 EXCEPT ![result].data = Store(@, summed, elementsNumber)],
               result,
               IF \/ elementsNumber > Cap(hp2[result])
                  \/ elementsNumber > Cap(hp2[matrix_1])
                  \/ elementsNumber > Cap(hp2[matrix_2])
               THEN "oob" ELSE "ok")

\* A slip in stride_1 below: the two cases exchanged.
DotStride1Exchanged(transpose_1, couplingLength, rows) ==
  IF transpose_1 = MATRIX_TRANSPOSE THEN rows ELSE couplingLength

\* stride_1 and stride_2: the distance between columns of each operand.
DotStride1(transpose_1, couplingLength, rows) ==
  IF transpose_1 = MATRIX_TRANSPOSE THEN couplingLength ELSE rows

DotStride2(transpose_2, couplingLength, columns) ==
  IF transpose_2 = MATRIX_TRANSPOSE THEN columns ELSE couplingLength

Mat_Dot(hp, matrix_1, transpose_1, matrix_2, transpose_2, result, g) ==
  IF hp[matrix_1].null \/ hp[matrix_2].null THEN Res(hp, NullHandle, "ok")
  ELSE
  LET couplingLength == IF transpose_1 = MATRIX_TRANSPOSE
                        THEN hp[matrix_1].rowsNumber ELSE hp[matrix_1].columnsNumber
  IN
  IF couplingLength # (IF transpose_2 = MATRIX_TRANSPOSE
                       THEN hp[matrix_2].columnsNumber ELSE hp[matrix_2].rowsNumber)
  THEN Res(hp, NullHandle, "ok")
  ELSE IF hp[result].null THEN Res(hp, NullHandle, "null")
  ELSE LET hp1 == [hp EXCEPT ![result].rowsNumber =
                     IF transpose_1 = MATRIX_TRANSPOSE
                     THEN hp[matrix_1].columnsNumber ELSE hp[matrix_1].rowsNumber]
           hp2 == [hp1 EXCEPT ![result].columnsNumber =
                     IF transpose_2 = MATRIX_TRANSPOSE
                     THEN hp1[matrix_2].rowsNumber ELSE hp1[matrix_2].columnsNumber]
           m == hp2[result].rowsNumber
           n == hp2[result].columnsNumber
           stride_1 == DotStride1(transpose_1, couplingLength, m)
           stride_2 == DotStride2(transpose_2, couplingLength, n)
           auxArray == dgemm_(transpose_1, transpose_2, m, n, couplingLength,
                              hp2[matrix_1].data, stride_1,
                              hp2[matrix_2].data, stride_2, g)
           \* the last element of each operand the kernel reads
           last_1 == IF transpose_1 = MATRIX_TRANSPOSE
                     THEN (couplingLength - 1) + (m - 1) * stride_1
                     ELSE (m - 1) + (couplingLength - 1) * stride_1
           last_2 == IF transpose_2 = MATRIX_TRANSPOSE
                     THEN (n - 1) + (couplingLength - 1) * stride_2
                     ELSE (couplingLength - 1) + (n - 1) * stride_2
           reads == m > 0 /\ n > 0 /\ couplingLength > 0
       IN  Res([hp2 EXCEPT ![result].data = Store(@, auxArray, m * n)],
               result,
               IF \/ m * n > Cap(hp2[result])
                  \/ reads /\ last_1 >= Cap(hp2[matrix_1])
                  \/ reads /\ last_2 >= Cap(hp2[matrix_2])
               THEN "oob" ELSE "ok")

\* The loop of Mat_Determinant from pivotIndex on.
RECURSIVE DeterminantLoop(_, _, _, _)
DeterminantLoop(n, f, pivotIndex, determinant) ==
  IF pivotIndex >= n THEN determinant
  ELSE LET d1 == RMul(determinant, f.a[pivotIndex * n + pivotIndex + 1])
           d2 == IF f.ipiv[pivotIndex + 1] # pivotIndex THEN RMul(d1, Num(-1)) ELSE d1
       IN  DeterminantLoop(n, f, pivotIndex + 1, d2)

Mat_Determinant(hp, matrix, g) ==
  IF hp[matrix].null THEN Res(hp, Zero, "ok")
  ELSE IF hp[matrix].rowsNumber # hp[matrix].columnsNumber THEN Res(hp, Zero, "ok")
  ELSE LET n == hp[matrix].rowsNumber
           auxArray == Pad(hp[matrix].data, n * n, g)
           f == dgetrf_(n, auxArray)
       IN  Res(hp, DeterminantLoop(n, f, 0, One),
               IF n * n > Cap(hp[matrix]) THEN "oob" ELSE "ok")

Mat_Transpose(hp, matrix, result, g) ==
  IF hp[matrix].null THEN Res(hp, NullHandle, "ok")
  ELSE IF hp[result].null THEN Res(hp, NullHandle, "null")
  ELSE LET hp1 == [hp EXCEPT ![result].rowsNumber = hp[matrix].columnsNumber]
           hp2 == [hp1 EXCEPT ![result].columnsNumber = hp1[matrix].rowsNumber]
           rows == hp2[result].rowsNumber
           columns == hp2[result].columnsNumber
           auxArray == [i \in 1 .. rows * columns |->
                          LET column == (i - 1) \div rows
                              row == (i - 1) % rows
                          IN  Rd(hp2[matrix].data,
                                 row * hp2[matrix].rowsNumber + column, g)]
           lastRead == (rows - 1) * hp2[matrix].rowsNumber + columns - 1
       IN  Res([hp2 EXCEPT ![result].data = Store(@, auxArray, rows * columns)],
               result,
               IF \/ rows * columns > Cap(hp2[result])
                  \/ rows * columns > 0 /\ lastRead >= Cap(hp2[matrix])
               THEN "oob" ELSE "ok")

Mat_Inverse(hp, matrix, result, g) ==
  IF hp[matrix].null \/ hp[result].null THEN Res(hp, NullHandle, "ok")
  ELSE IF hp[matrix].rowsNumber # hp[matrix].columnsNumber
  THEN Res(hp, NullHandle, "ok")
  ELSE LET copied == Cells(hp[matrix])
           hp1 == IF matrix # result
                  THEN [hp EXCEPT ![result] =
                          MatrixData(hp[matrix].rowsNumber, hp[matrix].columnsNumber,
                                     Store(hp[result].data,
                                           Pad(hp[matrix].data, copied, g), copied))]
                  ELSE hp
           n == hp1[result].rowsNumber
           f == dgetrf_(n, Pad(hp1[result].data, n * n, g))
           hp2 == [hp1 EXCEPT ![result].data = Store(@, f.a, n * n)]
           inv == dgetri_(n, f.a, f.ipiv)
           hp3 == [hp2 EXCEPT ![result].data = Store(@, inv.a, n * n)]
           st == IF copied > Cap(hp[matrix]) \/ n * n > Cap(hp[result])
                 THEN "oob" ELSE "ok"
       IN  IF f.info # 0 THEN Res(hp2, NullHandle, st)
           ELSE IF inv.info # 0 THEN Res(hp3, NullHandle, st)
           ELSE Res(hp3, result, st)

(***************************************************************************)
(* The caller.  Every action is one call of the interface; the arguments   *)
(* are drawn from the small sets below.                                    *)
(***************************************************************************)
Scalars == {Zero, Num(2)}
WeightPairs == {<<One, Zero>>, <<Num(2), Num(-1)>>}
Flags == {MATRIX_KEEP, MATRIX_TRANSPOSE}
Types == {MATRIX_IDENTITY, MATRIX_ZERO}
\* Values an out-of-bounds read may yield.
Garbage == {Zero, Num(99)}
\* Rows and columns asked of Mat_GetElement and Mat_SetElement: every small
\* position and the one past it.
Positions == 0 .. MaxDim
\* Orders asked of Mat_CreateSquare.
Orders == SmallDims \cup {MATRIX_SIZE_MAX + 1}
\* Arrays handed to Mat_Create: NULL, or (for small shapes) the test array.
CreateData(rows, cols) ==
  IF rows \in SmallDims /\ cols \in SmallDims
  THEN {<<>>, <<Canon(rows, cols)>>} ELSE {<<>>}

\* The call returns: an out-of-bounds access or a NULL dereference is
\* undefined behaviour, and the process either dies or runs on with whatever
\* the access read or left behind; the model stops in both cases.
Finish(op, args, r, outcome) ==
  /\ heap' = r.heap
  /\ pre' = heap
  /\ last' = [op |-> op, args |-> args, ret |-> r.ret]
  /\ status' = outcome
  /\ left' = left - 1

Call(op, args, R) ==
  /\ status = "ok"
  /\ left > 0
  /\ LET r0 == R[Zero]
     IN  CASE r0.st = "ok" -> Finish(op, args, r0, "ok")
           [] r0.st = "null" -> Finish(op, args, r0, "aborted")
           [] r0.st = "oob" ->
                \E g \in Garbage, outcome \in {"aborted", "corrupted"} :
                  Finish(op, args, R[g], outcome)

\* The pointer a constructor returns is kept in a variable that is free.
Keep(d, m, st) ==
  Res([heap EXCEPT ![d] = m], IF m.null THEN NullHandle ELSE d, st)

Create ==
  \E p \in DimPairs, d \in Handles :
    /\ heap[d].null
    /\ \E data \in CreateData(p[1], p[2]) :
         Call("Create", <<data, p[1], p[2], d>>,
              [g \in Garbage |-> Keep(d, Mat_Create(data, p[1], p[2]), "ok")])

CreateSquare ==
  \E size \in Orders, type \in Types, d \in Handles :
    /\ heap[d].null
    /\ Call("CreateSquare", <<size, type, d>>,
            [g \in Garbage |-> LET c == Mat_CreateSquare(size, type) IN Keep(d, c.m, c.st)])

Discard ==
  \E h \in Handles :
    Call("Discard", <<h>>, [g \in Garbage |-> Mat_Discard(heap, h)])

Copy ==
  \E source \in Handles, destination \in Handles :
    Call("Copy", <<source, destination>>,
         [g \in Garbage |-> Mat_Copy(heap, source, destination, g)])

Clear ==
  \E h \in Handles :
    Call("Clear", <<h>>, [g \in Garbage |-> Mat_Clear(heap, h)])

GetWidth ==
  \E h \in Handles :
    Call("GetWidth", <<h>>, [g \in Garbage |-> Mat_GetWidth(heap, h)])

GetHeight ==
  \E h \in Handles :
    Call("GetHeight", <<h>>, [g \in Garbage |-> Mat_GetHeight(heap, h)])

GetElement ==
  \E h \in Handles, row \in Positions, column \in Positions :
    Call("GetElement", <<h, row, column>>,
         [g \in Garbage |-> Mat_GetElement(heap, h, row, column, g)])

SetElement ==
  \E h \in Handles, row \in Positions, column \in Positions :
    Call("SetElement", <<h, row, column, Num(9)>>,
         [g \in Garbage |-> Mat_SetElement(heap, h, row, column, Num(9))])

GetData ==
  \E h \in Handles :
    Call("GetData", <<h>>, [g \in Garbage |-> Mat_GetData(heap, h, g)])

\* The caller passes an array of rows * columns values (none is read when
\* the matrix is NULL).
SetData ==
  \E h \in Handles :
    LET data == IF heap[h].null THEN <<>>
                ELSE Other(heap[h].rowsNumber, heap[h].columnsNumber)
    IN  Call("SetData", <<h, data>>, [g \in Garbage |-> Mat_SetData(heap, h, data)])

Resize ==
  \E h \in Handles, p \in DimPairs :
    Call("Resize", <<h, p[1], p[2]>>,
         [g \in Garbage |-> Mat_Resize(heap, h, p[1], p[2], g)])

Scale ==
  \E matrix \in Handles, scalar \in Scalars, result \in Handles :
    Call("Scale", <<matrix, scalar, result>>,
         [g \in Garbage |-> Mat_Scale(heap, matrix, scalar, result, g)])

Sum ==
  \E matrix_1 \in Handles, matrix_2 \in Handles, w \in WeightPairs, result \in Handles :
    Call("Sum", <<matrix_1, w[1], matrix_2, w[2], result>>,
         [g \in Garbage |-> Mat_Sum(heap, matrix_1, w[1], matrix_2, w[2], result, g)])

Dot ==
  \E matrix_1 \in Handles, transpose_1 \in Flags,
     matrix_2 \in Handles, transpose_2 \in Flags, result \in Handles :
    Call("Dot", <<matrix_1, transpose_1, matrix_2, transpose_2, result>>,
         [g \in Garbage |-> Mat_Dot(heap, matrix_1, transpose_1, matrix_2, transpose_2,
                            result, g)])

Determinant ==
  \E matrix \in Handles :
    Call("Determinant", <<matrix>>, [g \in Garbage |-> Mat_Determinant(heap, matrix, g)])

Transpose ==
  \E matrix \in Handles, result \in Handles :
    Call("Transpose", <<matrix, result>>,
         [g \in Garbage |-> Mat_Transpose(heap, matrix, result, g)])

Inverse ==
  \E matrix \in Handles, result \in Handles :
    Call("Inverse", <<matrix, result>>,
         [g \in Garbage |-> Mat_Inverse(heap, matrix, result, g)])

Next ==
  \/ Create \/ CreateSquare \/ Discard \/ Copy \/ Clear
  \/ GetWidth \/ GetHeight \/ GetElement \/ SetElement \/ GetData \/ SetData
  \/ Resize \/ Scale \/ Sum \/ Dot \/ Determinant \/ Transpose \/ Inverse

NoCall == [op |-> "none", args |-> <<>>, ret |-> NullHandle]

\* A fresh process: no matrix yet, MaxOps calls to come.
Init ==
  /\ heap = [h \in Handles |-> NULL]
  /\ pre = heap
  /\ last = NoCall
  /\ status = "ok"
  /\ left = MaxOps

Spec == Init /\ [][Next]_vars

\* What a variable holds after the caller's set-up: NULL, a matrix created
\* from the test array, or an identity.
Operands ==
  {NULL}
    \cup {Mat_Create(<<Canon(r, c)>>, r, c) : r \in 1 .. MaxDim, c \in 1 .. MaxDim}
    \cup {Mat_CreateSquare(n, MATRIX_IDENTITY).m : n \in 1 .. MaxDim}

\* The operands in a fixed order: NULL, the matrices created from the test
\* array by rows then columns, then the identities.
OperandAt(k) ==
  IF k = 0 THEN NULL
  ELSE IF k <= MaxDim * MaxDim
       THEN LET r == (k - 1) \div MaxDim + 1
                c == ((k - 1) % MaxDim) + 1
            IN  Mat_Create(<<Canon(r, c)>>, r, c)
       ELSE Mat_CreateSquare(k - MaxDim * MaxDim, MATRIX_IDENTITY).m

\* The caller's variables hold operands; which variable holds which makes no
\* difference to a call, which may name any variable in any position, so the
\* variables are filled in the order of OperandAt.
OperandHeaps ==
  {[h \in Handles |-> OperandAt(f[h])] :
     f \in {o \in [Handles -> 0 .. MaxDim * MaxDim + MaxDim] :
              \A a, b \in Handles : a < b => o[a] <= o[b]}}

\* One algebraic call on operands the caller has set up.
InitCall ==
  /\ heap \in OperandHeaps
  /\ pre = heap
  /\ last = NoCall
  /\ status = "ok"
  /\ left = 1

\* The algebraic operations, which write into a result the caller supplies.
NextAlgebra == Scale \/ Sum \/ Dot \/ Determinant \/ Transpose \/ Inverse

SpecCall == InitCall /\ [][NextAlgebra]_vars

\* Bulk interchange on a matrix the caller has set up in one of its
\* variables: MaxOps calls of Mat_SetData, Mat_GetElement and Mat_GetData.
InitData ==
  /\ heap \in {[h \in Handles |-> IF h = d THEN m ELSE NULL] :
                 d \in Handles, m \in Operands}
  /\ pre = heap
  /\ last = NoCall
  /\ status = "ok"
  /\ left = MaxOps

NextData == SetData \/ GetElement \/ GetData

SpecData == InitData /\ [][NextData]_vars

(***************************************************************************)
(* Vocabulary of the properties.                                           *)
(***************************************************************************)
\* The arguments of the last call.
Arg(i) == last.args[i]

\* m holds all of its rows * columns elements and they are those of want.
SameMatrix(m, want) ==
  /\ ~m.null
  /\ m.rowsNumber = want.rowsNumber
  /\ m.columnsNumber = want.columnsNumber
  /\ Cells(want) <= Cap(m)
  /\ \A i \in 1 .. Cells(want) : m.data[i] = want.data[i]

\* Element (row, column) of a matrix whose buffer holds it.
Element(m, row, column) == m.data[column * m.rowsNumber + row + 1]

\* The variables the last call was handed where a matrix is required.
MatrixArgs ==
  CASE last.op \in {"Discard", "Clear", "GetWidth", "GetHeight", "GetElement",
                    "SetElement", "GetData", "SetData", "Determinant"} -> {Arg(1)}
    [] last.op \in {"Copy", "Transpose", "Inverse"} -> {Arg(1), Arg(2)}
    [] last.op = "Scale" -> {Arg(1), Arg(3)}
    [] last.op \in {"Sum", "Dot"} -> {Arg(1), Arg(3), Arg(5)}
    [] OTHER -> {}

\* The last call signalled failure the way its return type allows.
ReturnedFailure ==
  CASE last.op \in {"Copy", "Clear", "Scale", "Sum", "Dot", "Transpose",
                    "Inverse", "CreateSquare"} -> last.ret = NullHandle
    [] last.op \in {"GetWidth", "GetHeight"} -> last.ret = 0
    [] last.op \in {"GetElement", "Determinant"} -> last.ret = Zero
    [] last.op = "GetData" -> last.ret = <<>>
    [] OTHER -> TRUE

(***************************************************************************)
(* C1.  Every live matrix has rows * columns <= MATRIX_SIZE_MAX; Create    *)
(* and CreateSquare return NULL when the element count asked for exceeds   *)
(* the maximum, and otherwise a matrix of exactly the shape asked for.     *)
(***************************************************************************)
C1_CreateWithinCapacity ==
  /\ \A h \in Handles : ~heap[h].null => Cells(heap[h]) <= MATRIX_SIZE_MAX
  /\ last.op = "Create" =>
       IF Arg(2) * Arg(3) > MATRIX_SIZE_MAX THEN last.ret = NullHandle
       ELSE /\ last.ret = Arg(4)
            /\ Mat_GetHeight(heap, Arg(4)).ret = Arg(2)
            /\ Mat_GetWidth(heap, Arg(4)).ret = Arg(3)
  /\ last.op = "CreateSquare" =>
       IF Arg(1) * Arg(1) > MATRIX_SIZE_MAX
       THEN status = "ok" /\ last.ret = NullHandle
       ELSE /\ last.ret = Arg(3)
            /\ Mat_GetHeight(heap, Arg(3)).ret = Arg(1)
            /\ Mat_GetWidth(heap, Arg(3)).ret = Arg(1)

(***************************************************************************)
(* C2.  Transpose is an involution: after Transpose(A, B), with B able to  *)
(* hold A's elements (B may be A itself), Transpose(B, C) into any C able  *)
(* to hold them (C may be B) gives C the dimensions and the elements A had.*)
(***************************************************************************)
C2_TransposeInvolution ==
  (/\ last.op = "Transpose"
   /\ ~pre[Arg(1)].null
   /\ ~pre[Arg(2)].null
   /\ Cells(pre[Arg(1)]) <= Cap(pre[Arg(1)])
   /\ Cells(pre[Arg(1)]) <= Cap(pre[Arg(2)]))
  => /\ status = "ok"
     /\ last.ret = Arg(2)
     /\ \A C \in Handles :
          (~heap[C].null /\ Cells(pre[Arg(1)]) <= Cap(heap[C]))
          => LET second == Mat_Transpose(heap, Arg(2), C, Zero)
             IN  /\ second.st = "ok"
                 /\ second.ret = C
                 /\ SameMatrix(second.heap[C], pre[Arg(1)])

(***************************************************************************)
(* C3.  The determinant of the identity of any order n >= 1 is 1.0.        *)
(***************************************************************************)
C3_DeterminantOfIdentity ==
  (/\ last.op = "Determinant"
   /\ \E n \in 1 .. MaxDim :
        pre[Arg(1)] = Mat_CreateSquare(n, MATRIX_IDENTITY).m)
  => status = "ok" /\ last.ret = One

(***************************************************************************)
(* C4.  A call handed NULL where a matrix is required (a source operand or *)
(* the result argument), and CreateSquare when its creation fails, never   *)
(* kills the process: it returns NULL or zero.                             *)
(***************************************************************************)
C4_NullHandleNeverAborts ==
  (\/ \E h \in MatrixArgs : pre[h].null
   \/ last.op = "CreateSquare" /\ Mat_Create(<<>>, Arg(1), Arg(1)).null)
  => status = "ok" /\ ReturnedFailure

(***************************************************************************)
(* C5.  Resize of a live matrix to a shape within the limit gives that     *)
(* shape; every cell inside both the old and the new shape keeps its       *)
(* value, every other cell of the new shape is 0.0, and nothing is written *)
(* outside the cells of the new shape.                                     *)
(***************************************************************************)
C5_ResizePreserves ==
  (/\ last.op = "Resize"
   /\ ~pre[Arg(1)].null
   /\ Cells(pre[Arg(1)]) <= Cap(pre[Arg(1)])
   /\ Arg(2) * Arg(3) <= MATRIX_SIZE_MAX)
  => LET old == pre[Arg(1)]
         new == heap[Arg(1)]
     IN  /\ status = "ok"
         /\ last.ret = Arg(1)
         /\ ~new.null
         /\ new.rowsNumber = Arg(2)
         /\ new.columnsNumber = Arg(3)
         /\ Cells(new) <= Cap(new)
         /\ \A row \in 0 .. Arg(2) - 1, column \in 0 .. Arg(3) - 1 :
              Element(new, row, column) =
                IF row < old.rowsNumber /\ column < old.columnsNumber
                THEN Element(old, row, column) ELSE Zero
         /\ \A i \in Cells(new) + 1 .. Cap(new) :
              i <= Cap(old) => new.data[i] = old.data[i]

(***************************************************************************)
(* C6.  Resize to more than MATRIX_SIZE_MAX elements fails: it returns     *)
(* NULL, for a live and for a NULL handle, and leaves no live matrix with  *)
(* more than the maximum number of elements.                               *)
(***************************************************************************)
C6_ResizeBeyondCapacityFails ==
  (last.op = "Resize" /\ Arg(2) * Arg(3) > MATRIX_SIZE_MAX)
  => /\ last.ret = NullHandle
     /\ heap[Arg(1)].null \/ Cells(heap[Arg(1)]) <= MATRIX_SIZE_MAX

(***************************************************************************)
(* C7.  Dot with the result aliased to one of the operands gives the       *)
(* result the dimensions and the elements that the same call gives a       *)
(* distinct destination: (rows of op(a)) x (columns of op(b)).             *)
(***************************************************************************)
\* The matrix a fresh m x n destination holds after the last Dot's call.
DotIntoFresh(m, n) ==
  LET fresh == 4
      hp == [h \in Handles \cup {fresh} |->
               IF h = fresh THEN Mat_Create(<<>>, m, n) ELSE pre[h]]
  IN  Mat_Dot(hp, Arg(1), Arg(2), Arg(3), Arg(4), fresh, Zero).heap[fresh]

C7_DotAliasing ==
  LET a == pre[Arg(1)]
      b == pre[Arg(3)]
      m == IF Arg(2) = MATRIX_TRANSPOSE THEN a.columnsNumber ELSE a.rowsNumber
      k1 == IF Arg(2) = MATRIX_TRANSPOSE THEN a.rowsNumber ELSE a.columnsNumber
      k2 == IF Arg(4) = MATRIX_TRANSPOSE THEN b.columnsNumber ELSE b.rowsNumber
      n == IF Arg(4) = MATRIX_TRANSPOSE THEN b.rowsNumber ELSE b.columnsNumber
  IN  (/\ last.op = "Dot"
       /\ Arg(5) \in {Arg(1), Arg(3)}
       /\ ~a.null /\ ~b.null
       /\ k1 = k2
       /\ m * n <= Cap(pre[Arg(5)]))
      => /\ status = "ok"
         /\ last.ret = Arg(5)
         /\ heap[Arg(5)].rowsNumber = m
         /\ heap[Arg(5)].columnsNumber = n
         /\ SameMatrix(heap[Arg(5)], DotIntoFresh(m, n))

(***************************************************************************)
(* C8.  Scale(A, k, R) on live A and R, whatever dimensions R had, gives R *)
(* the dimensions of A and makes each of the rows(A) * columns(A)          *)
(* elements of R k times the corresponding element of A.                   *)
(***************************************************************************)
C8_ScaleAllElements ==
  (/\ last.op = "Scale"
   /\ ~pre[Arg(1)].null
   /\ ~pre[Arg(3)].null
   /\ Cells(pre[Arg(1)]) <= Cap(pre[Arg(1)]))
  => LET A == pre[Arg(1)]
         R == heap[Arg(3)]
     IN  /\ status = "ok"
         /\ last.ret = Arg(3)
         /\ R.rowsNumber = A.rowsNumber
         /\ R.columnsNumber = A.columnsNumber
         /\ Cells(A) <= Cap(R)
         /\ \A i \in 1 .. Cells(A) : R.data[i] = RMul(Arg(2), A.data[i])

(***************************************************************************)
(* C9.  Identity law of the product: with both operands kept, an identity  *)
(* of matching order as the right (or the left) operand, and a result R    *)
(* whose buffer holds the product, Dot gives R the shape and the elements  *)
(* of the other operand.                                                   *)
(***************************************************************************)
IsIdentity(m, n) == m = Mat_CreateSquare(n, MATRIX_IDENTITY).m

C9_DotIdentity ==
  (/\ last.op = "Dot"
   /\ Arg(2) = MATRIX_KEEP
   /\ Arg(4) = MATRIX_KEEP
   /\ ~pre[Arg(1)].null /\ ~pre[Arg(3)].null /\ ~pre[Arg(5)].null
   /\ Cells(pre[Arg(1)]) <= Cap(pre[Arg(1)])
   /\ Cells(pre[Arg(3)]) <= Cap(pre[Arg(3)]))
  => /\ (/\ IsIdentity(pre[Arg(3)], pre[Arg(1)].columnsNumber)
         /\ Cells(pre[Arg(1)]) <= Cap(pre[Arg(5)]))
        => /\ status = "ok"
           /\ last.ret = Arg(5)
           /\ SameMatrix(heap[Arg(5)], pre[Arg(1)])
     /\ (/\ IsIdentity(pre[Arg(1)], pre[Arg(3)].rowsNumber)
         /\ Cells(pre[Arg(3)]) <= Cap(pre[Arg(5)]))
        => /\ status = "ok"
           /\ last.ret = Arg(5)
           /\ SameMatrix(heap[Arg(5)], pre[Arg(3)])

\* Reached: a non-square A times the identity, into a distinct R that held
\* something else.
C9_Witness ==
  /\ last.op = "Dot"
  /\ Arg(2) = MATRIX_KEEP /\ Arg(4) = MATRIX_KEEP
  /\ Arg(5) \notin {Arg(1), Arg(3)}
  /\ ~pre[Arg(1)].null /\ ~pre[Arg(3)].null /\ ~pre[Arg(5)].null
  /\ pre[Arg(1)].rowsNumber # pre[Arg(1)].columnsNumber
  /\ IsIdentity(pre[Arg(3)], pre[Arg(1)].columnsNumber)
  /\ pre[Arg(5)] # pre[Arg(1)]
  /\ status = "ok"
  /\ SameMatrix(heap[Arg(5)], pre[Arg(1)])

(***************************************************************************)
(* C10.  Failure leaves the result untouched: Scale, Sum, Dot, Transpose   *)
(* or Inverse with a NULL input matrix, Sum with operands of different     *)
(* shapes, Dot with coupling lengths that differ, or Inverse of a          *)
(* non-square matrix returns NULL and the result matrix keeps its          *)
(* dimensions and every element.                                           *)
(***************************************************************************)
\* The last call was one of the five with an input the claim names; its
\* result argument is ResultArg.
ResultArg ==
  CASE last.op = "Scale" -> Arg(3)
    [] last.op \in {"Sum", "Dot"} -> Arg(5)
    [] last.op \in {"Transpose", "Inverse"} -> Arg(2)

FailingInput ==
  CASE last.op \in {"Scale", "Transpose"} -> pre[Arg(1)].null
    [] last.op = "Sum" ->
         \/ pre[Arg(1)].null \/ pre[Arg(3)].null
         \/ pre[Arg(1)].rowsNumber # pre[Arg(3)].rowsNumber
         \/ pre[Arg(1)].columnsNumber # pre[Arg(3)].columnsNumber
    [] last.op = "Dot" ->
         \/ pre[Arg(1)].null \/ pre[Arg(3)].null
         \/ (IF Arg(2) = MATRIX_TRANSPOSE
             THEN pre[Arg(1)].rowsNumber ELSE pre[Arg(1)].columnsNumber)
            # (IF Arg(4) = MATRIX_TRANSPOSE
               THEN pre[Arg(3)].columnsNumber ELSE pre[Arg(3)].rowsNumber)
    [] last.op = "Inverse" ->
         \/ pre[Arg(1)].null
         \/ pre[Arg(1)].rowsNumber # pre[Arg(1)].columnsNumber
    [] OTHER -> FALSE

C10_FailureLeavesResult ==
  FailingInput
  => /\ status = "ok"
     /\ last.ret = NullHandle
     /\ heap[ResultArg] = pre[ResultArg]

\* Reached: a Sum of two live matrices of different shapes, handed a live
\* result.
C10_Witness ==
  /\ last.op = "Sum"
  /\ ~pre[Arg(1)].null /\ ~pre[Arg(3)].null /\ ~pre[Arg(5)].null
  /\ pre[Arg(1)].columnsNumber # pre[Arg(3)].columnsNumber
  /\ Arg(5) \notin {Arg(1), Arg(3)}
  /\ last.ret = NullHandle
  /\ heap[Arg(5)] = pre[Arg(5)]

\* C11: on a live matrix the caller created with shape rows x cols,
\* SetData(M, X) completes, a GetData(M, buffer) that follows it returns the
\* buffer filled with exactly X, and a GetElement(M, r, c) that follows it
\* returns X[r * cols + c] for in-bounds (r, c) and leaves M as it is.
C11_SetDataGetDataRoundTrip ==
  [][/\ (last'.op = "SetData" /\ ~heap[last'.args[1]].null) => status' = "ok"
     /\ (/\ last.op = "SetData"
         /\ ~heap[Arg(1)].null
         /\ last'.op = "GetData"
         /\ last'.args[1] = Arg(1))
          => /\ status' = "ok"
             /\ last'.ret = <<Arg(2)>>
     /\ (/\ last.op = "SetData"
         /\ ~heap[Arg(1)].null
         /\ last'.op = "GetElement"
         /\ last'.args[1] = Arg(1)
         /\ last'.args[2] < heap[Arg(1)].rowsNumber
         /\ last'.args[3] < heap[Arg(1)].columnsNumber)
          => /\ status' = "ok"
             /\ last'.ret = Arg(2)[last'.args[2] * heap[Arg(1)].columnsNumber
                                   + last'.args[3] + 1]
             /\ heap' = heap]_vars

\* Reached: GetData has filled the buffer with the array a SetData stored in
\* a matrix of more than one row and more than one column.
C11_Witness ==
  /\ last.op = "GetData"
  /\ status = "ok"
  /\ ~heap[Arg(1)].null
  /\ heap[Arg(1)].rowsNumber > 1 /\ heap[Arg(1)].columnsNumber > 1
  /\ last.ret = <<Other(heap[Arg(1)].rowsNumber, heap[Arg(1)].columnsNumber)>>

\* C12: after any sequence of calls that ran without fault, the buffer of
\* every live matrix holds exactly rowsNumber * columnsNumber doubles.
C12_BufferMatchesShape ==
  status = "ok" =>
    \A h \in Handles : ~heap[h].null => Cap(heap[h]) = Cells(heap[h])

====
